---------------------------- MODULE Spec2Model ----------------------------
(***************************************************************************)
(* Project Ryland data utilities: the keyword-delimited text extraction of *)
(* text_extraction_utils.py over the rule tables of keyword_mappings.py,   *)
(* and the progress-note selection of note_filter_utils.py.                *)
(*                                                                         *)
(* A Python str is a sequence of one-character strings; offsets are the    *)
(* 0-based offsets of Python (text[i] is the sequence's element i + 1).    *)
(* A DataFrame is a sequence of records, one per row, in row order.        *)
(***************************************************************************)
EXTENDS Integers, Sequences, FiniteSets, TLC

VARIABLES
    \* ---- text extraction (text_extraction_utils.py)
    entry,          \* which public function was called: "extract_text" | "scan"
    input_text,     \* the document, or NaN
    proc_desc, mapping_type, match_type, fallback,   \* extract_text's arguments
    mappings,       \* the rule list (get_mappings' result, or the caller's)
    compiled,       \* compile_mappings' result
    matches,        \* find_matches' result
    idx,            \* extract_segments: index of the next match of the for loop
    current_pos,    \* extract_segments: current_pos
    extracted,      \* extract_segments: the list of SECTION / SECTION_TEXT dicts
    ranges,         \* the <<start_pos, end_pos>> of each dict appended to extracted
    pc,             \* position of the extraction call
    result,         \* what the call returned or raised
    history,        \* the extract_text calls finished before this one
    \* ---- note filtering (note_filter_utils.py)
    df_notes, df_tx, df_dx,   \* the three prepared tables
    call,           \* the call made on them, with its arguments
    out             \* the table it returned, or what it raised

extract_vars == <<entry, input_text, proc_desc, mapping_type, match_type,
                  fallback, mappings, compiled, matches, idx, current_pos,
                  extracted, ranges, pc, result, history>>
filter_vars == <<df_notes, df_tx, df_dx, call, out>>
vars == <<extract_vars, filter_vars>>

---------------------------------------------------------------------------
(* Bounds *)

\* longest generated document text
MaxTextLen == 3
\* most rules in a generated rule list
MaxRules == 2
\* most rows of a generated notes table
MaxNotes == 2
\* dates are the days 0 .. MaxDate
MaxDate == 2
\* most extract_text calls made one after the other
MaxCalls == 3

---------------------------------------------------------------------------
(* Python values *)

\* None / NaN where a str is expected: a value no str equals
None == <<"None">>
NaN == <<"NaN">>

\* pd.isna(x) for x a str, None or NaN
isna(x) == x = None \/ x = NaN

\* re.search / Pattern.search returning None
NoMatch == -1

\* str.lower() on one character (re.IGNORECASE folds case the same way on
\* the letters of the registry keys)
UpperChars == <<"A","B","C","D","E","F","G","H","I","J","K","L","M",
                "N","O","P","Q","R","S","T","U","V","W","X","Y","Z">>
LowerChars == <<"a","b","c","d","e","f","g","h","i","j","k","l","m",
                "n","o","p","q","r","s","t","u","v","w","x","y","z">>
Lower(c) ==
    IF \E i \in 1..Len(UpperChars) : UpperChars[i] = c
    THEN LowerChars[CHOOSE i \in 1..Len(UpperChars) : UpperChars[i] = c]
    ELSE c
LowerStr(s) == [i \in 1..Len(s) |-> Lower(s[i])]

\* text[a:b] for 0 <= a, b <= len(text)
Slice(text, a, b) == SubSeq(text, a + 1, b)

\* the literal pat occurs in text at offset i, wholly before offset endpos
OccursAt(text, pat, i, endpos) ==
    /\ i + Len(pat) <= endpos
    /\ \A k \in 1..Len(pat) : text[i + k] = pat[k]

\* Pattern.search(text, pos, endpos).start() for a pattern that is an
\* alternation of escaped literals: the leftmost offset in pos..endpos at
\* which one of the alternatives matches, or NoMatch
Search(alternatives, text, pos, endpos) ==
    LET hits == {i \in pos..endpos :
                   \E a \in 1..Len(alternatives) :
                       OccursAt(text, alternatives[a], i, endpos)}
    IN  IF hits = {} THEN NoMatch
        ELSE CHOOSE i \in hits : \A j \in hits : i <= j

\* [m.start() for m in re.compile(re.escape(pat)).finditer(text)]:
\* the non-overlapping occurrences of pat, left to right
RECURSIVE FindIterFrom(_, _, _)
FindIterFrom(pat, text, pos) ==
    IF pos + Len(pat) > Len(text) THEN <<>>
    ELSE IF OccursAt(text, pat, pos, Len(text))
         THEN <<pos>> \o FindIterFrom(pat, text,
                             pos + (IF Len(pat) = 0 THEN 1 ELSE Len(pat)))
         ELSE FindIterFrom(pat, text, pos + 1)
finditer(pat, text) == FindIterFrom(pat, text, 0)

\* re.search(key, proc_desc, flags=re.IGNORECASE) for a key without regex
\* metacharacters: a case-insensitive substring test
SearchIgnoreCase(key, s) ==
    Search(<<LowerStr(key)>>, LowerStr(s), 0, Len(s)) # NoMatch

\* \s of the regex and the characters str.strip() removes
Whitespace == {" ", "\t", "\n"}

RECURSIVE LStrip(_, _)
LStrip(s, chars) ==
    IF s # <<>> /\ Head(s) \in chars THEN LStrip(Tail(s), chars) ELSE s
RECURSIVE RStrip(_, _)
RStrip(s, chars) ==
    IF s # <<>> /\ s[Len(s)] \in chars
    THEN RStrip(SubSeq(s, 1, Len(s) - 1), chars) ELSE s
\* str.strip()
strip(s) == RStrip(LStrip(s, Whitespace), Whitespace)

\* re.sub(r"^[:\s]+", "", s).strip()
CleanText(s) == strip(LStrip(s, Whitespace \cup {":"}))

---------------------------------------------------------------------------
(* keyword_mappings.py: the rule tables, keys in declaration order *)

image_mappings_by_proc_desc ==
  <<
   \* key "*"
   [key |-> <<"*">>, rules |-> <<
      \* start "IMPRESSION:"  end ['END IMPRESSION', 'This report was electronically signed']
      [start |-> <<"I","M","P","R","E","S","S","I","O","N",":">>,
       end |-> <<<<"E","N","D"," ","I","M","P","R","E","S","S","I","O","N">>, <<"T","h","i","s"," ","r","e","p","o","r","t"," ","w","a","s"," ","e","l","e","c","t","r","o","n","i","c","a","l","l","y"," ","s","i","g","n","e","d">>>>,
       condition |-> "None", exclude_after |-> None]
   >>]
  >>

progress_note_mappings_by_proc_desc ==
  <<
   \* key "Progress Note"
   [key |-> <<"P","r","o","g","r","e","s","s"," ","N","o","t","e">>, rules |-> <<
      \* start "EXAM:"  end ['DATA:', 'MRI']
      [start |-> <<"E","X","A","M",":">>,
       end |-> <<<<"D","A","T","A",":">>, <<"M","R","I">>>>,
       condition |-> "None", exclude_after |-> None],
      \* start "EXAMINATION"  end ['LABORATORY', 'ASSESSMENT AND PLAN']
      [start |-> <<"E","X","A","M","I","N","A","T","I","O","N">>,
       end |-> <<<<"L","A","B","O","R","A","T","O","R","Y">>, <<"A","S","S","E","S","S","M","E","N","T"," ","A","N","D"," ","P","L","A","N">>>>,
       condition |-> "None", exclude_after |-> None],
      \* start "PHYSICAL EXAM"  end ['LABORATORY', 'IMAGING', 'IMPRESSION AND PLAN', 'LABS', 'RADIOGRAPHIC EXAMINATION', 'Radiology', 'PLAN', 'LAB RESULT', 'IMPRESSION', 'ASSESSMENT/PLAN']
      [start |-> <<"P","H","Y","S","I","C","A","L"," ","E","X","A","M">>,
       end |-> <<<<"L","A","B","O","R","A","T","O","R","Y">>, <<"I","M","A","G","I","N","G">>, <<"I","M","P","R","E","S","S","I","O","N"," ","A","N","D"," ","P","L","A","N">>, <<"L","A","B","S">>, <<"R","A","D","I","O","G","R","A","P","H","I","C"," ","E","X","A","M","I","N","A","T","I","O","N">>, <<"R","a","d","i","o","l","o","g","y">>, <<"P","L","A","N">>, <<"L","A","B"," ","R","E","S","U","L","T">>, <<"I","M","P","R","E","S","S","I","O","N">>, <<"A","S","S","E","S","S","M","E","N","T","/","P","L","A","N">>>>,
       condition |-> "None", exclude_after |-> None],
      \* start "Physical Exam"  end ['TEST', 'Results', 'Labs', 'Blood Draw', 'LABORATORY']
      [start |-> <<"P","h","y","s","i","c","a","l"," ","E","x","a","m">>,
       end |-> <<<<"T","E","S","T">>, <<"R","e","s","u","l","t","s">>, <<"L","a","b","s">>, <<"B","l","o","o","d"," ","D","r","a","w">>, <<"L","A","B","O","R","A","T","O","R","Y">>>>,
       condition |-> "None", exclude_after |-> None],
      \* start "Physical exam"  end ['Lab Results']
      [start |-> <<"P","h","y","s","i","c","a","l"," ","e","x","a","m">>,
       end |-> <<<<"L","a","b"," ","R","e","s","u","l","t","s">>>>,
       condition |-> "None", exclude_after |-> None],
      \* start "Examination"  end ['Data Review', 'Prior Work up', 'Assessment and Plan']
      [start |-> <<"E","x","a","m","i","n","a","t","i","o","n">>,
       end |-> <<<<"D","a","t","a"," ","R","e","v","i","e","w">>, <<"P","r","i","o","r"," ","W","o","r","k"," ","u","p">>, <<"A","s","s","e","s","s","m","e","n","t"," ","a","n","d"," ","P","l","a","n">>>>,
       condition |-> "None", exclude_after |-> None]
   >>]
  >>

pathology_mappings_by_proc_desc ==
  <<
   \* key "SURGICAL PATHOLOGY"
   [key |-> <<"S","U","R","G","I","C","A","L"," ","P","A","T","H","O","L","O","G","Y">>, rules |-> <<
      \* start "INTERPRETATION"  end ['TEST INFORMATION', 'Final Diagnosis', 'Prior Results']
      [start |-> <<"I","N","T","E","R","P","R","E","T","A","T","I","O","N">>,
       end |-> <<<<"T","E","S","T"," ","I","N","F","O","R","M","A","T","I","O","N">>, <<"F","i","n","a","l"," ","D","i","a","g","n","o","s","i","s">>, <<"P","r","i","o","r"," ","R","e","s","u","l","t","s">>>>,
       condition |-> "None", exclude_after |-> None],
      \* start "FINAL PATHOLOGIC DIAGNOSIS"  end ['Electronically Signed Out']
      [start |-> <<"F","I","N","A","L"," ","P","A","T","H","O","L","O","G","I","C"," ","D","I","A","G","N","O","S","I","S">>,
       end |-> <<<<"E","l","e","c","t","r","o","n","i","c","a","l","l","y"," ","S","i","g","n","e","d"," ","O","u","t">>>>,
       condition |-> "None", exclude_after |-> None],
      \* start "PATHOLOGIC DIAGNOSIS"  end ['CLINICAL DATA']
      [start |-> <<"P","A","T","H","O","L","O","G","I","C"," ","D","I","A","G","N","O","S","I","S">>,
       end |-> <<<<"C","L","I","N","I","C","A","L"," ","D","A","T","A">>>>,
       condition |-> "None", exclude_after |-> None],
      \* start "FINAL DIAGNOSIS"  end ['GROSS DESCRIPTION', 'Final Diagnosis']
      [start |-> <<"F","I","N","A","L"," ","D","I","A","G","N","O","S","I","S">>,
       end |-> <<<<"G","R","O","S","S"," ","D","E","S","C","R","I","P","T","I","O","N">>, <<"F","i","n","a","l"," ","D","i","a","g","n","o","s","i","s">>>>,
       condition |-> "None", exclude_after |-> None],
      \* start "DIAGNOSIS"  end ['Gross Description', 'Final Diagnosis']
      [start |-> <<"D","I","A","G","N","O","S","I","S">>,
       end |-> <<<<"G","r","o","s","s"," ","D","e","s","c","r","i","p","t","i","o","n">>, <<"F","i","n","a","l"," ","D","i","a","g","n","o","s","i","s">>>>,
       condition |-> "None", exclude_after |-> None],
      \* start "Diagnosis"  end ['Gross Description']  exclude_after "CLINICAL DATA"
      [start |-> <<"D","i","a","g","n","o","s","i","s">>,
       end |-> <<<<"G","r","o","s","s"," ","D","e","s","c","r","i","p","t","i","o","n">>>>,
       condition |-> "exclude", exclude_after |-> <<"C","L","I","N","I","C","A","L"," ","D","A","T","A">>],
      \* start "Diagnosis"  end ['Electronically Signed Out']
      [start |-> <<"D","i","a","g","n","o","s","i","s">>,
       end |-> <<<<"E","l","e","c","t","r","o","n","i","c","a","l","l","y"," ","S","i","g","n","e","d"," ","O","u","t">>>>,
       condition |-> "None", exclude_after |-> None],
      \* start "Final Diagnosis"  end ['Electronically Signed Out']
      [start |-> <<"F","i","n","a","l"," ","D","i","a","g","n","o","s","i","s">>,
       end |-> <<<<"E","l","e","c","t","r","o","n","i","c","a","l","l","y"," ","S","i","g","n","e","d"," ","O","u","t">>>>,
       condition |-> "None", exclude_after |-> None]
   >>],
   \* key "ANATOMIC PATHOLOGY"
   [key |-> <<"A","N","A","T","O","M","I","C"," ","P","A","T","H","O","L","O","G","Y">>, rules |-> <<
      \* start "PATHOLOGIC DIAGNOSIS"  end ['CLINICAL DATA']
      [start |-> <<"P","A","T","H","O","L","O","G","I","C"," ","D","I","A","G","N","O","S","I","S">>,
       end |-> <<<<"C","L","I","N","I","C","A","L"," ","D","A","T","A">>>>,
       condition |-> "None", exclude_after |-> None],
      \* start "FINAL PATHOLOGIC DIAGNOSIS"  end ['Electronically Signed Out']
      [start |-> <<"F","I","N","A","L"," ","P","A","T","H","O","L","O","G","I","C"," ","D","I","A","G","N","O","S","I","S">>,
       end |-> <<<<"E","l","e","c","t","r","o","n","i","c","a","l","l","y"," ","S","i","g","n","e","d"," ","O","u","t">>>>,
       condition |-> "None", exclude_after |-> None],
      \* start "FINAL DIAGNOSIS"  end ['Clinical History']
      [start |-> <<"F","I","N","A","L"," ","D","I","A","G","N","O","S","I","S">>,
       end |-> <<<<"C","l","i","n","i","c","a","l"," ","H","i","s","t","o","r","y">>>>,
       condition |-> "None", exclude_after |-> None],
      \* start "RESULTS"  end ['REFERENCES']
      [start |-> <<"R","E","S","U","L","T","S">>,
       end |-> <<<<"R","E","F","E","R","E","N","C","E","S">>>>,
       condition |-> "None", exclude_after |-> None],
      \* start "INTERPRETATION"  end ['CLINICAL DATA']
      [start |-> <<"I","N","T","E","R","P","R","E","T","A","T","I","O","N">>,
       end |-> <<<<"C","L","I","N","I","C","A","L"," ","D","A","T","A">>>>,
       condition |-> "None", exclude_after |-> None],
      \* start "Diagnosis"  end ['Electronically Signed Out']
      [start |-> <<"D","i","a","g","n","o","s","i","s">>,
       end |-> <<<<"E","l","e","c","t","r","o","n","i","c","a","l","l","y"," ","S","i","g","n","e","d"," ","O","u","t">>>>,
       condition |-> "None", exclude_after |-> None],
      \* start "DIAGNOSIS"  end ['Gross Description']  exclude_after "CLINICAL DATA"
      [start |-> <<"D","I","A","G","N","O","S","I","S">>,
       end |-> <<<<"G","r","o","s","s"," ","D","e","s","c","r","i","p","t","i","o","n">>>>,
       condition |-> "exclude", exclude_after |-> <<"C","L","I","N","I","C","A","L"," ","D","A","T","A">>],
      \* start "Final Diagnosis"  end ['Clinical History:']
      [start |-> <<"F","i","n","a","l"," ","D","i","a","g","n","o","s","i","s">>,
       end |-> <<<<"C","l","i","n","i","c","a","l"," ","H","i","s","t","o","r","y",":">>>>,
       condition |-> "None", exclude_after |-> None]
   >>],
   \* key "FLOW CYTOMETRY"
   [key |-> <<"F","L","O","W"," ","C","Y","T","O","M","E","T","R","Y">>, rules |-> <<
      \* start "INTERPRETATION"  end ['By his/her signature', 'These tests were developed']
      [start |-> <<"I","N","T","E","R","P","R","E","T","A","T","I","O","N">>,
       end |-> <<<<"B","y"," ","h","i","s","/","h","e","r"," ","s","i","g","n","a","t","u","r","e">>, <<"T","h","e","s","e"," ","t","e","s","t","s"," ","w","e","r","e"," ","d","e","v","e","l","o","p","e","d">>>>,
       condition |-> "None", exclude_after |-> None]
   >>],
   \* key "OUTSIDE PATHOLOGY REVIEW"
   [key |-> <<"O","U","T","S","I","D","E"," ","P","A","T","H","O","L","O","G","Y"," ","R","E","V","I","E","W">>, rules |-> <<
      \* start "PATHOLOGIC DIAGNOSIS"  end ['CLINICAL DATA']
      [start |-> <<"P","A","T","H","O","L","O","G","I","C"," ","D","I","A","G","N","O","S","I","S">>,
       end |-> <<<<"C","L","I","N","I","C","A","L"," ","D","A","T","A">>>>,
       condition |-> "None", exclude_after |-> None],
      \* start "INTEGRATED DIAGNOSIS"  end ['Electronically Signed']
      [start |-> <<"I","N","T","E","G","R","A","T","E","D"," ","D","I","A","G","N","O","S","I","S">>,
       end |-> <<<<"E","l","e","c","t","r","o","n","i","c","a","l","l","y"," ","S","i","g","n","e","d">>>>,
       condition |-> "None", exclude_after |-> None]
   >>],
   \* key "OTHER PATHOLOGY RESULTS"
   [key |-> <<"O","T","H","E","R"," ","P","A","T","H","O","L","O","G","Y"," ","R","E","S","U","L","T","S">>, rules |-> <<
      \* start "DIAGNOSIS"  end ['CLINICAL DATA']
      [start |-> <<"D","I","A","G","N","O","S","I","S">>,
       end |-> <<<<"C","L","I","N","I","C","A","L"," ","D","A","T","A">>>>,
       condition |-> "None", exclude_after |-> None],
      \* start "PATHOLOGIC DIAGNOSIS"  end ['CLINICAL DATA']
      [start |-> <<"P","A","T","H","O","L","O","G","I","C"," ","D","I","A","G","N","O","S","I","S">>,
       end |-> <<<<"C","L","I","N","I","C","A","L"," ","D","A","T","A">>>>,
       condition |-> "None", exclude_after |-> None],
      \* start "FINAL DIAGNOSIS"  end ['GROSS DESCRIPTION']
      [start |-> <<"F","I","N","A","L"," ","D","I","A","G","N","O","S","I","S">>,
       end |-> <<<<"G","R","O","S","S"," ","D","E","S","C","R","I","P","T","I","O","N">>>>,
       condition |-> "None", exclude_after |-> None],
      \* start "CYTOLOGIC DIAGNOSIS"  end []
      [start |-> <<"C","Y","T","O","L","O","G","I","C"," ","D","I","A","G","N","O","S","I","S">>,
       end |-> <<>>,
       condition |-> "None", exclude_after |-> None],
      \* start "Final Diagnosis"  end ['Clinical History']
      [start |-> <<"F","i","n","a","l"," ","D","i","a","g","n","o","s","i","s">>,
       end |-> <<<<"C","l","i","n","i","c","a","l"," ","H","i","s","t","o","r","y">>>>,
       condition |-> "None", exclude_after |-> None],
      \* start "INTERPRETATION"  end ['Final Diagnosis']
      [start |-> <<"I","N","T","E","R","P","R","E","T","A","T","I","O","N">>,
       end |-> <<<<"F","i","n","a","l"," ","D","i","a","g","n","o","s","i","s">>>>,
       condition |-> "None", exclude_after |-> None],
      \* start "RESULT"  end ['Final Diagnosis']
      [start |-> <<"R","E","S","U","L","T">>,
       end |-> <<<<"F","i","n","a","l"," ","D","i","a","g","n","o","s","i","s">>>>,
       condition |-> "None", exclude_after |-> None],
      \* start "Result"  end ['Final Diagnosis']
      [start |-> <<"R","e","s","u","l","t">>,
       end |-> <<<<"F","i","n","a","l"," ","D","i","a","g","n","o","s","i","s">>>>,
       condition |-> "None", exclude_after |-> None]
   >>],
   \* key "PROGRESS NOTES"
   [key |-> <<"P","R","O","G","R","E","S","S"," ","N","O","T","E","S">>, rules |-> <<
      \* start "EXAMINATION"  end ['LABORATORY', 'ASSESSMENT AND PLAN']
      [start |-> <<"E","X","A","M","I","N","A","T","I","O","N">>,
       end |-> <<<<"L","A","B","O","R","A","T","O","R","Y">>, <<"A","S","S","E","S","S","M","E","N","T"," ","A","N","D"," ","P","L","A","N">>>>,
       condition |-> "None", exclude_after |-> None],
      \* start "PHYSICAL EXAM"  end ['LABORATORY', 'IMAGING', 'IMPRESSION AND PLAN', 'LABS', 'RADIOGRAPHIC EXAMINATION', 'Radiology', 'PLAN', 'LAB RESULT', 'IMPRESSION', 'ASSESSMENT/PLAN']
      [start |-> <<"P","H","Y","S","I","C","A","L"," ","E","X","A","M">>,
       end |-> <<<<"L","A","B","O","R","A","T","O","R","Y">>, <<"I","M","A","G","I","N","G">>, <<"I","M","P","R","E","S","S","I","O","N"," ","A","N","D"," ","P","L","A","N">>, <<"L","A","B","S">>, <<"R","A","D","I","O","G","R","A","P","H","I","C"," ","E","X","A","M","I","N","A","T","I","O","N">>, <<"R","a","d","i","o","l","o","g","y">>, <<"P","L","A","N">>, <<"L","A","B"," ","R","E","S","U","L","T">>, <<"I","M","P","R","E","S","S","I","O","N">>, <<"A","S","S","E","S","S","M","E","N","T","/","P","L","A","N">>>>,
       condition |-> "None", exclude_after |-> None],
      \* start "Physical Exam"  end ['TEST', 'Results', 'Labs', 'Blood Draw', 'LABORATORY']
      [start |-> <<"P","h","y","s","i","c","a","l"," ","E","x","a","m">>,
       end |-> <<<<"T","E","S","T">>, <<"R","e","s","u","l","t","s">>, <<"L","a","b","s">>, <<"B","l","o","o","d"," ","D","r","a","w">>, <<"L","A","B","O","R","A","T","O","R","Y">>>>,
       condition |-> "None", exclude_after |-> None],
      \* start "Physical exam"  end ['Lab Results']
      [start |-> <<"P","h","y","s","i","c","a","l"," ","e","x","a","m">>,
       end |-> <<<<"L","a","b"," ","R","e","s","u","l","t","s">>>>,
       condition |-> "None", exclude_after |-> None],
      \* start "Examination"  end ['Data Review', 'Prior Work up', 'Assessment and Plan']
      [start |-> <<"E","x","a","m","i","n","a","t","i","o","n">>,
       end |-> <<<<"D","a","t","a"," ","R","e","v","i","e","w">>, <<"P","r","i","o","r"," ","W","o","r","k"," ","u","p">>, <<"A","s","s","e","s","s","m","e","n","t"," ","a","n","d"," ","P","l","a","n">>>>,
       condition |-> "None", exclude_after |-> None]
   >>]
  >>

---------------------------------------------------------------------------
(* text_extraction_utils.py *)

\* a call's outcome: the exception raised, or the value returned
Raise(e) == [raised |-> e, value |-> <<>>]
Return(v) == [raised |-> "", value |-> v]

WILDCARD == <<"*">>
ENTIRE_NOTE == <<"E","N","T","I","R","E"," ","N","O","T","E">>
FALLBACK_TEXT == <<"F","A","L","L","B","A","C","K"," ","T","E","X","T">>
NO_INPUT_TEXT == <<"N","O"," ","I","N","P","U","T"," ","T","E","X","T">>

\* get_mappings: the mapping_dict chosen by mapping_type
MappingTypes == {"pathology", "imaging", "progress"}
mapping_dict(mtype) ==
    CASE mtype = "pathology" -> pathology_mappings_by_proc_desc
      [] mtype = "imaging" -> image_mappings_by_proc_desc
      [] mtype = "progress" -> progress_note_mappings_by_proc_desc

\* the mutant: a key contained in proc_desc, in any case, counts as equal
KeyIndexesContained(dict, key) ==
    {i \in 1..Len(dict) : SearchIgnoreCase(dict[i].key, key)}

\* key in mapping_dict, mapping_dict[key]
KeyIndexes(dict, key) == {i \in 1..Len(dict) : dict[i].key = key}
HasKey(dict, key) == KeyIndexes(dict, key) # {}
Lookup(dict, key) == dict[CHOOSE i \in KeyIndexes(dict, key) : TRUE].rules

\* the keys the soft loop would return on, by position in mapping_dict.keys()
SoftHits(dict, pdesc) ==
    {i \in 1..Len(dict) :
        dict[i].key = WILDCARD \/ SearchIgnoreCase(dict[i].key, pdesc)}

\* the mutant: the last matching key wins
SoftMatchLast(dict, pdesc) ==
    dict[CHOOSE i \in SoftHits(dict, pdesc) :
            \A j \in SoftHits(dict, pdesc) : j <= i].rules

\* the for loop of the soft branch returns at the first key that matches
SoftMatch(dict, pdesc) ==
    dict[CHOOSE i \in SoftHits(dict, pdesc) :
            \A j \in SoftHits(dict, pdesc) : i <= j].rules

get_mappings(pdesc, mtype, matcht) ==
    IF mtype \notin MappingTypes
    THEN Raise("ValueError: mapping_type must be pathology or imaging or progress")
    ELSE LET dict == mapping_dict(mtype) IN
         IF matcht = "hard"
         THEN IF ~HasKey(dict, pdesc)
              THEN Raise("ValueError: Unknown PROC_DESC")
              ELSE Return(Lookup(dict, pdesc))
         ELSE IF matcht = "soft"
         THEN IF SoftHits(dict, pdesc) # {}
              THEN Return(SoftMatch(dict, pdesc))
              ELSE IF HasKey(dict, WILDCARD)
                   THEN Return(Lookup(dict, WILDCARD))
                   ELSE Raise("ValueError: No soft match found for PROC_DESC")
         ELSE Raise("ValueError: match_type must be either hard or soft")

\* re.compile("|".join(re.escape(i) for i in end)), as the list of its
\* alternatives: the join of no keyword is the empty pattern "", whose one
\* alternative is the empty string
end_regex_of(end) == IF end = <<>> THEN << <<>> >> ELSE end

\* re.compile(re.escape(exclude_after)) if mapping.get("exclude_after") else None
exclude_regex_of(exclude_after) ==
    IF exclude_after # None /\ exclude_after # <<>> THEN exclude_after ELSE None

compile_mappings(ms) ==
    [i \in 1..Len(ms) |->
        [start_keyword |-> ms[i].start,
         start_regex |-> ms[i].start,
         end_keywords |-> ms[i].end,
         end_regex |-> end_regex_of(ms[i].end),
         condition |-> ms[i].condition,
         exclude_after |-> ms[i].exclude_after,
         exclude_regex |-> exclude_regex_of(ms[i].exclude_after)]]

\* find_matches, inner loop: the dicts one compiled rule appends, one per
\* occurrence of its start keyword; start_pos is match.end()
MatchesOfRule(mapping, text) ==
    LET occ == finditer(mapping.start_regex, text) IN
    [k \in 1..Len(occ) |->
        [section |-> mapping.start_keyword,
         start_pos |-> occ[k] + Len(mapping.start_regex),
         end_regex |-> mapping.end_regex,
         condition |-> mapping.condition,
         exclude_regex |-> mapping.exclude_regex]]

\* find_matches, outer loop: rule by rule, in rule order
RECURSIVE MatchesFrom(_, _, _)
MatchesFrom(cs, text, i) ==
    IF i > Len(cs) THEN <<>>
    ELSE MatchesOfRule(cs[i], text) \o MatchesFrom(cs, text, i + 1)

\* find_matches, the imaging condition: once match_count >= 1 every further
\* match of the two loops is skipped
KeepAppended(found, mtype) ==
    IF mtype = "imaging" /\ found # <<>> THEN <<found[1]>> ELSE found

\* sorted(matches, key=start_pos): a stable sort
RECURSIVE sorted(_)
sorted(ms) ==
    IF ms = <<>> THEN <<>>
    ELSE LET s == sorted(SubSeq(ms, 1, Len(ms) - 1))
             m == ms[Len(ms)]
             k == Cardinality({j \in 1..Len(s) : s[j].start_pos <= m.start_pos})
         IN  SubSeq(s, 1, k) \o <<m>> \o SubSeq(s, k + 1, Len(s))

\* the mutant: matches is one list shared by all calls, never emptied
FindMatchesShared(text, cs, mtype) ==
    sorted(matches \o KeepAppended(MatchesFrom(cs, text, 1), mtype))

find_matches(text, cs, mtype) ==
    sorted(KeepAppended(MatchesFrom(cs, text, 1), mtype))

\* the mutant: the overlap test compares with the start of the text, so
\* no match is ever skipped
OverlapsNever(match, cur) == match.start_pos < 0

\* extract_segments, one iteration: the overlap test
Overlaps(match, cur) == match.start_pos < cur

\* the mutant: the end keywords are tried one by one in list order, the
\* first that occurs at all ends the segment
EndPosFirstKeyword(match, text) ==
    LET present == {a \in 1..Len(match.end_regex) :
                       Search(<<match.end_regex[a]>>, text, match.start_pos,
                              Len(text)) # NoMatch}
    IN  IF present = {} THEN Len(text)
        ELSE Search(<<match.end_regex[CHOOSE a \in present :
                                         \A b \in present : a <= b]>>,
                    text, match.start_pos, Len(text))

\* extract_segments, one iteration: end_pos
EndPos(match, text) ==
    LET end_match == Search(match.end_regex, text, match.start_pos, Len(text))
    IN  IF end_match # NoMatch THEN end_match ELSE Len(text)

\* the mutant: exclude_regex searched up to the end of the text
ExcludedToTextEnd(match, text) ==
    /\ match.condition = "exclude"
    /\ match.exclude_regex # None
    /\ Search(<<match.exclude_regex>>, text,
              match.start_pos, Len(text)) # NoMatch

\* extract_segments, one iteration: the exclusion test
Excluded(match, text) ==
    /\ match.condition = "exclude"
    /\ match.exclude_regex # None
    /\ Search(<<match.exclude_regex>>, text,
              match.start_pos, EndPos(match, text)) # NoMatch

\* extract_segments, one iteration: the dict appended
Segment(match, text) ==
    [SECTION |-> match.section,
     SECTION_TEXT |-> CleanText(Slice(text, match.start_pos, EndPos(match, text)))]

\* the mutant: the whole note appended whatever was extracted
AlwaysEntireNote(segs, text) ==
    Append(segs, [SECTION |-> ENTIRE_NOTE, SECTION_TEXT |-> strip(text)])

\* extract_segments, after the loop: the whole note when nothing was extracted
WithEntireNote(segs, text) ==
    IF segs = <<>>
    THEN <<[SECTION |-> ENTIRE_NOTE, SECTION_TEXT |-> strip(text)]>>
    ELSE segs

---------------------------------------------------------------------------
(* The inputs of the extraction calls *)

\* "Diagnosis: foo CLINICAL DATA bar Gross Description"
DiagnosisNote == <<"D","i","a","g","n","o","s","i","s",":"," ","f","o","o"," ","C","L","I","N","I","C","A","L"," ","D","A","T","A"," ","b","a","r"," ","G","r","o","s","s"," ","D","e","s","c","r","i","p","t","i","o","n">>
\* "IMPRESSION: one IMPRESSION: two END IMPRESSION"
ImpressionNote == <<"I","M","P","R","E","S","S","I","O","N",":"," ","o","n","e"," ","I","M","P","R","E","S","S","I","O","N",":"," ","t","w","o"," ","E","N","D"," ","I","M","P","R","E","S","S","I","O","N">>
\* "CYTOLOGIC DIAGNOSISCLINICAL DATA none"
CytologyNote == <<"C","Y","T","O","L","O","G","I","C"," ","D","I","A","G","N","O","S","I","S","C","L","I","N","I","C","A","L"," ","D","A","T","A"," ","n","o","n","e">>
\* " no anchor here "
PlainNote == <<" ","n","o"," ","a","n","c","h","o","r"," ","h","e","r","e"," ">>
\* "Diagnosis: foo Diagnosis: bar Gross Description"
RepeatedDiagnosisNote == <<"D","i","a","g","n","o","s","i","s",":"," ","f","o","o"," ","D","i","a","g","n","o","s","i","s",":"," ","b","a","r"," ","G","r","o","s","s"," ","D","e","s","c","r","i","p","t","i","o","n">>
\* "see attached"
FallbackNote == <<"s","e","e"," ","a","t","t","a","c","h","e","d">>

\* the documents handed to extract_text
ExtractTexts == {NaN, <<>>, DiagnosisNote, ImpressionNote, CytologyNote, PlainNote}

\* the PROC_DESC values handed to extract_text
ProcDescs ==
    { <<"S","U","R","G","I","C","A","L"," ","P","A","T","H","O","L","O","G","Y">>,
      <<"O","T","H","E","R"," ","P","A","T","H","O","L","O","G","Y"," ","R","E","S","U","L","T","S">>,
      \* "surgical pathology report"
      <<"s","u","r","g","i","c","a","l"," ","p","a","t","h","o","l","o","g","y"," ","r","e","p","o","r","t">>,
      \* "Anatomic Pathology and Surgical Pathology"
      <<"A","n","a","t","o","m","i","c"," ","P","a","t","h","o","l","o","g","y"," ","a","n","d"," ","S","u","r","g","i","c","a","l"," ","P","a","t","h","o","l","o","g","y">>,
      <<"C","T"," ","C","H","E","S","T">>,
      <<"P","r","o","g","r","e","s","s"," ","N","o","t","e">>,
      <<"X","R","A","Y">> }

\* the single rule of the exclude example:
\* {start "Diagnosis", end ["Gross Description"], exclude, "CLINICAL DATA"}
DiagnosisExcludeRule ==
    [start |-> <<"D","i","a","g","n","o","s","i","s">>,
     end |-> <<<<"G","r","o","s","s"," ","D","e","s","c","r","i","p","t","i","o","n">>>>,
     condition |-> "exclude",
     exclude_after |-> <<"C","L","I","N","I","C","A","L"," ","D","A","T","A">>]

\* generated documents: every text of at most MaxTextLen characters
Alphabet == {"a", "b", "c", " "}
TextsOfLen(n) == [1..n -> Alphabet]
SmallTexts == UNION {TextsOfLen(n) : n \in 0..MaxTextLen}

\* generated rules over the same alphabet: a plain rule, an exclude rule
\* with the same start keyword, a rule without end keywords, a rule with
\* two end keywords
SmallRules ==
    { [start |-> <<"a">>, end |-> <<<<"b">>>>, condition |-> "None",
       exclude_after |-> None],
      [start |-> <<"a">>, end |-> <<<<"b">>>>, condition |-> "exclude",
       exclude_after |-> <<"c">>],
      [start |-> <<"b">>, end |-> <<>>, condition |-> "None",
       exclude_after |-> None],
      [start |-> <<"c">>, end |-> <<<<"b">>, <<"a">>>>, condition |-> "None",
       exclude_after |-> None] }
RuleListsOfLen(n) == [1..n -> SmallRules]
SmallRuleLists == UNION {RuleListsOfLen(n) : n \in 0..MaxRules}

\* the <<text, rule list>> pairs handed to find_matches and extract_segments
ScanInputs ==
    (SmallTexts \X SmallRuleLists)
        \cup {<<DiagnosisNote, <<DiagnosisExcludeRule>>>>}

---------------------------------------------------------------------------
(* The extraction calls as a state machine *)

FilterIdle ==
    /\ df_notes = <<>> /\ df_tx = <<>> /\ df_dx = <<>>
    /\ call = [name |-> "none"]
    /\ out = Return(<<>>)

\* extract_text(input_text, proc_desc, mapping_type, match_type, fallback)
InitExtractText ==
    /\ entry = "extract_text"
    /\ input_text \in ExtractTexts
    /\ proc_desc \in ProcDescs
    /\ mapping_type \in MappingTypes \cup {"labs"}
    /\ match_type \in {"hard", "soft", "fuzzy"}
    /\ fallback \in {None, FallbackNote}
    /\ mappings = <<>>
    /\ pc = "extract_text"

\* find_matches(input_text, compile_mappings(mappings), mapping_type) and
\* extract_segments(input_text, matches), called on their own
InitScan ==
    /\ entry = "scan"
    /\ \E inp \in ScanInputs : input_text = inp[1] /\ mappings = inp[2]
    /\ proc_desc = None
    /\ mapping_type \in {"imaging", "pathology"}
    /\ match_type = "hard"
    /\ fallback = None
    /\ pc = "compile"

InitExtract ==
    /\ InitExtractText \/ InitScan
    /\ compiled = <<>> /\ matches = <<>> /\ idx = 1 /\ current_pos = 0
    /\ extracted = <<>> /\ ranges = <<>>
    /\ result = Return(<<>>)
    /\ history = <<>>
    /\ FilterIdle

inputs == <<entry, input_text, proc_desc, mapping_type, match_type, fallback>>

\* extract_text, lines 202-210: the absent-text branches and the lookup.
\* The elif branch assigns the NO INPUT TEXT segment to a local and does
\* not return: control goes on to get_mappings.
ExtractText ==
    /\ pc = "extract_text"
    /\ IF isna(input_text) /\ fallback # None
       THEN /\ result' = Return(<<[SECTION |-> FALLBACK_TEXT,
                                   SECTION_TEXT |-> fallback]>>)
            /\ pc' = "done"
            /\ UNCHANGED mappings
       ELSE LET got == get_mappings(proc_desc, mapping_type, match_type) IN
            IF got.raised # ""
            THEN /\ result' = got
                 /\ pc' = "raised"
                 /\ UNCHANGED mappings
            ELSE /\ mappings' = got.value
                 /\ pc' = "compile"
                 /\ UNCHANGED result
    /\ UNCHANGED <<inputs, compiled, matches, idx, current_pos, extracted,
                   ranges, history, filter_vars>>

\* compile_mappings(mappings)
CompileMappings ==
    /\ pc = "compile"
    /\ compiled' = compile_mappings(mappings)
    /\ pc' = "find_matches"
    /\ UNCHANGED <<inputs, mappings, matches, idx, current_pos, extracted,
                   ranges, result, history, filter_vars>>

\* find_matches(input_text, compiled, mapping_type), then the first lines
\* of extract_segments. A NaN input_text is no str: start_regex.finditer
\* raises TypeError (or, with no rule at all, len(input_text) does).
FindMatches ==
    /\ pc = "find_matches"
    /\ IF isna(input_text)
       THEN /\ result' = Raise("TypeError: expected string or bytes-like object")
            /\ pc' = "raised"
            /\ UNCHANGED <<matches, idx, current_pos, extracted, ranges>>
       ELSE /\ matches' = find_matches(input_text, compiled, mapping_type)
            /\ idx' = 1
            /\ current_pos' = 0
            /\ extracted' = <<>>
            /\ ranges' = <<>>
            /\ pc' = "extract_segments"
            /\ UNCHANGED result
    /\ UNCHANGED <<inputs, mappings, compiled, history, filter_vars>>

InLoop == pc = "extract_segments" /\ idx <= Len(matches)

\* extract_segments, lines 136-139: a match inside the previous segment
SkipOverlap ==
    /\ InLoop
    /\ Overlaps(matches[idx], current_pos)
    /\ idx' = idx + 1
    /\ UNCHANGED <<inputs, mappings, compiled, matches, current_pos,
                   extracted, ranges, pc, result, history, filter_vars>>

\* extract_segments, lines 153-158: the exclusion criterion matched
ExcludeSegment ==
    /\ InLoop
    /\ ~Overlaps(matches[idx], current_pos)
    /\ Excluded(matches[idx], input_text)
    /\ idx' = idx + 1
    /\ UNCHANGED <<inputs, mappings, compiled, matches, current_pos,
                   extracted, ranges, pc, result, history, filter_vars>>

\* extract_segments, lines 160-170: the segment is appended
EmitSegment ==
    /\ InLoop
    /\ ~Overlaps(matches[idx], current_pos)
    /\ ~Excluded(matches[idx], input_text)
    /\ extracted' = Append(extracted, Segment(matches[idx], input_text))
    /\ ranges' = Append(ranges,
                        [start_pos |-> matches[idx].start_pos,
                         end_pos |-> EndPos(matches[idx], input_text),
                         match |-> matches[idx]])
    /\ current_pos' = EndPos(matches[idx], input_text)
    /\ idx' = idx + 1
    /\ UNCHANGED <<inputs, mappings, compiled, matches, pc, result,
                   history, filter_vars>>

\* extract_segments, lines 172-179: the fallback and the return
ReturnSegments ==
    /\ pc = "extract_segments"
    /\ idx > Len(matches)
    /\ extracted' = WithEntireNote(extracted, input_text)
    /\ result' = Return(extracted')
    /\ pc' = "done"
    /\ UNCHANGED <<inputs, mappings, compiled, matches, idx, current_pos,
                   ranges, history, filter_vars>>

NextExtract ==
    \/ ExtractText
    \/ CompileMappings
    \/ FindMatches
    \/ SkipOverlap
    \/ ExcludeSegment
    \/ EmitSegment
    \/ ReturnSegments

SpecExtract == InitExtract /\ [][NextExtract]_vars

---------------------------------------------------------------------------
(* extract_text called again and again *)

\* the arguments of the repeated calls: an absent text with and without
\* fallback, the Diagnosis and IMPRESSION examples, a registered and an
\* unregistered PROC_DESC, the pathology table looked up hard and the
\* imaging table looked up soft
RepeatCalls ==
    ({NaN, DiagnosisNote, ImpressionNote, RepeatedDiagnosisNote}
        \X { <<"S","U","R","G","I","C","A","L"," ","P","A","T","H","O","L","O","G","Y">>,
             <<"X","R","A","Y">> }
        \X {<<"pathology", "hard">>, <<"imaging", "soft">>}
        \X {None})
    \cup {<<NaN, <<"X","R","A","Y">>, <<"imaging", "soft">>, FallbackNote>>}

\* the arguments of the call in progress
args == <<input_text, proc_desc, mapping_type, match_type, fallback>>

StartCall(c) ==
    /\ entry' = "extract_text"
    /\ input_text' = c[1]
    /\ proc_desc' = c[2]
    /\ mapping_type' = c[3][1]
    /\ match_type' = c[3][2]
    /\ fallback' = c[4]
    /\ pc' = "extract_text"

InitRepeat ==
    /\ entry = "extract_text"
    /\ \E c \in RepeatCalls :
          /\ input_text = c[1]
          /\ proc_desc = c[2]
          /\ mapping_type = c[3][1]
          /\ match_type = c[3][2]
          /\ fallback = c[4]
    /\ mappings = <<>>
    /\ pc = "extract_text"
    /\ compiled = <<>> /\ matches = <<>> /\ idx = 1 /\ current_pos = 0
    /\ extracted = <<>> /\ ranges = <<>>
    /\ result = Return(<<>>)
    /\ history = <<>>
    /\ FilterIdle

\* the caller's next call of extract_text, after the one before returned
\* or raised. A call's locals are created by its own assignments: nothing
\* is reset here, and what the call before left in the module-level state
\* (none in the code) would still be there.
ExtractTextAgain ==
    /\ pc \in {"done", "raised"}
    /\ Len(history) + 1 < MaxCalls
    /\ history' = Append(history, [args |-> args, result |-> result])
    /\ \E c \in RepeatCalls : StartCall(c)
    /\ UNCHANGED <<mappings, compiled, matches, idx, current_pos, extracted,
                   ranges, result, filter_vars>>

NextRepeat ==
    \/ NextExtract
    \/ ExtractTextAgain

SpecRepeat == InitRepeat /\ [][NextRepeat]_vars

---------------------------------------------------------------------------
(* note_filter_utils.py *)

\* A datetime or nullable integer cell is <<v>>, or NaT / <NA>, the empty
\* tuple; dates are day numbers (ensure_naive_datetime has been applied by
\* the prep_* functions, unparseable dates coerced to NaT).
NaT == <<>>
NA == <<>>
Cell(v) == <<v>>
notna(x) == x # <<>>

\* a >= b on two datetime cells: False when either is NaT
Ge(a, b) == notna(a) /\ notna(b) /\ a[1] >= b[1]

\* (a - b).dt.days
DaysBetween(a, b) == IF notna(a) /\ notna(b) THEN Cell(a[1] - b[1]) ELSE NA

\* (a - b).abs().dt.days
AbsDaysBetween(a, b) ==
    IF notna(a) /\ notna(b)
    THEN Cell(IF a[1] >= b[1] THEN a[1] - b[1] ELSE b[1] - a[1])
    ELSE NA

\* a + pd.DateOffset(days=n)
PlusDays(a, n) == IF notna(a) THEN Cell(a[1] + n) ELSE NaT

\* the concatenation of a sequence of sequences
RECURSIVE Flatten(_)
Flatten(ss) == IF ss = <<>> THEN <<>> ELSE Head(ss) \o Flatten(Tail(ss))

\* the order of the TREATMENT labels as strings
Treatments == {"A", "B"}
TreatmentRank(t) == IF t = "A" THEN 1 ELSE 2

\* pd.merge(df_tx, df_dx, on="DFCI_MRN", how="left"): the rows of df_tx in
\* order, each with every diagnosis row of its patient, or with NaT
MergeDx(tx, dx) ==
    Flatten([i \in 1..Len(tx) |->
        LET mine == SelectSeq(dx, LAMBDA d : d.DFCI_MRN = tx[i].DFCI_MRN)
        IN  IF mine = <<>>
            THEN <<[DFCI_MRN |-> tx[i].DFCI_MRN,
                    TREATMENT |-> tx[i].TREATMENT,
                    TPLAN_START_DT |-> tx[i].TPLAN_START_DT,
                    DIAGNOSIS_DATE |-> NaT]>>
            ELSE [k \in 1..Len(mine) |->
                   [DFCI_MRN |-> tx[i].DFCI_MRN,
                    TREATMENT |-> tx[i].TREATMENT,
                    TPLAN_START_DT |-> tx[i].TPLAN_START_DT,
                    DIAGNOSIS_DATE |-> mine[k].DIAGNOSIS_DATE]]])

\* .merge(df_notes, on="DFCI_MRN", how="left"): each row with every note of
\* its patient, or with a row of nulls
MergeNotes(rows, notes) ==
    Flatten([i \in 1..Len(rows) |->
        LET mine == SelectSeq(notes, LAMBDA n : n.DFCI_MRN = rows[i].DFCI_MRN)
        IN  IF mine = <<>>
            THEN <<[DFCI_MRN |-> rows[i].DFCI_MRN,
                    TREATMENT |-> rows[i].TREATMENT,
                    TPLAN_START_DT |-> rows[i].TPLAN_START_DT,
                    DIAGNOSIS_DATE |-> rows[i].DIAGNOSIS_DATE,
                    EVENT_DATE |-> NaT,
                    RPT_TEXT |-> NA]>>
            ELSE [k \in 1..Len(mine) |->
                   [DFCI_MRN |-> rows[i].DFCI_MRN,
                    TREATMENT |-> rows[i].TREATMENT,
                    TPLAN_START_DT |-> rows[i].TPLAN_START_DT,
                    DIAGNOSIS_DATE |-> rows[i].DIAGNOSIS_DATE,
                    EVENT_DATE |-> mine[k].EVENT_DATE,
                    RPT_TEXT |-> mine[k].RPT_TEXT]]])

\* the keys of df_merged.groupby("DFCI_MRN"), ascending
RECURSIVE Ascending(_)
Ascending(S) ==
    IF S = {} THEN <<>>
    ELSE LET m == CHOOSE x \in S : \A y \in S : x <= y
         IN  <<m>> \o Ascending(S \ {m})
GroupKeys(rows) == Ascending({rows[i].DFCI_MRN : i \in 1..Len(rows)})

\* notes_group[notes_group["EVENT_DATE"] >= dx_date]
NotesAfter(notes_group, dx_date) ==
    SelectSeq(notes_group, LAMBDA n : Ge(n.EVENT_DATE, dx_date))

\* find_notes_after_diagnosis, lines 143-157: the dicts appended to results
\* for one patient, one per diagnosis date that has a note after it: the
\* first row of the patient's group overlaid with notes_after_dx.iloc[0]
ResultsOfPatient(mrn, merged, notes) ==
    LET dx_group == SelectSeq(merged, LAMBDA r : r.DFCI_MRN = mrn)
        notes_group == SelectSeq(notes, LAMBDA n : n.DFCI_MRN = mrn)
    IN  Flatten([i \in 1..Len(dx_group) |->
            LET notes_after_dx == NotesAfter(notes_group,
                                             dx_group[i].DIAGNOSIS_DATE)
            IN  IF notes_after_dx = <<>> THEN <<>>
                ELSE <<[DFCI_MRN |-> notes_after_dx[1].DFCI_MRN,
                        TREATMENT |-> dx_group[1].TREATMENT,
                        TPLAN_START_DT |-> dx_group[1].TPLAN_START_DT,
                        DIAGNOSIS_DATE |-> dx_group[1].DIAGNOSIS_DATE,
                        EVENT_DATE |-> notes_after_dx[1].EVENT_DATE,
                        RPT_TEXT |-> notes_after_dx[1].RPT_TEXT]>>])

\* DataFrame.drop_duplicates(): the first of every run of equal rows
RECURSIVE DropDuplicateRows(_, _)
DropDuplicateRows(rows, seen) ==
    IF rows = <<>> THEN <<>>
    ELSE IF Head(rows) \in seen
         THEN DropDuplicateRows(Tail(rows), seen)
         ELSE <<Head(rows)>> \o DropDuplicateRows(Tail(rows), seen \cup {Head(rows)})

\* find_notes_after_diagnosis(df_notes, df_tx, df_dx, earliest_data_date).
\* (The DX_AGE column, computed from BIRTH_DT, is left out.)
find_notes_after_diagnosis(notes, tx, dx, earliest_data_date) ==
    LET df_merged == MergeDx(tx, dx)
        keys == GroupKeys(df_merged)
        results == Flatten([g \in 1..Len(keys) |->
                              ResultsOfPatient(keys[g], df_merged, notes)])
        with_days == [i \in 1..Len(results) |->
            [DFCI_MRN |-> results[i].DFCI_MRN,
             TREATMENT |-> results[i].TREATMENT,
             TPLAN_START_DT |-> results[i].TPLAN_START_DT,
             DIAGNOSIS_DATE |-> results[i].DIAGNOSIS_DATE,
             EVENT_DATE |-> results[i].EVENT_DATE,
             RPT_TEXT |-> results[i].RPT_TEXT,
             DAYS_AFTER_DX |-> DaysBetween(results[i].EVENT_DATE,
                                           results[i].DIAGNOSIS_DATE),
             NOTE_TYPE |-> "first after dx"]]
        kept == SelectSeq(with_days,
                    LAMBDA r : Ge(r.DIAGNOSIS_DATE, earliest_data_date))
    IN  \* pd.DataFrame([]) has no column: final["EVENT_DATE"] raises
        IF results = <<>> THEN Raise("KeyError: EVENT_DATE")
        ELSE Return(DropDuplicateRows(kept, {}))

\* the sort key of sort_values([DFCI_MRN, TREATMENT, TPLAN_START_DT, dist]):
\* a <= b, nulls last
CellLeq(a, b) == ~notna(b) \/ (notna(a) /\ a[1] <= b[1])
RowLeq(a, b, da, db) ==
    \/ a.DFCI_MRN < b.DFCI_MRN
    \/ /\ a.DFCI_MRN = b.DFCI_MRN
       /\ \/ TreatmentRank(a.TREATMENT) < TreatmentRank(b.TREATMENT)
          \/ /\ a.TREATMENT = b.TREATMENT
             /\ \/ (a.TPLAN_START_DT # b.TPLAN_START_DT
                      /\ CellLeq(a.TPLAN_START_DT, b.TPLAN_START_DT))
                \/ (a.TPLAN_START_DT = b.TPLAN_START_DT /\ CellLeq(da, db))

\* df.sort_values([DFCI_MRN, TREATMENT, TPLAN_START_DT, dist]), a stable
\* sort; dist[i] is the distance column's cell of row i
RECURSIVE sort_values(_, _)
sort_values(rows, dist) ==
    IF rows = <<>> THEN <<>>
    ELSE LET n == Len(rows)
             s == sort_values(SubSeq(rows, 1, n - 1), SubSeq(dist, 1, n - 1))
             k == Cardinality({j \in 1..(n - 1) :
                     RowLeq(rows[s[j]], rows[n], dist[s[j]], dist[n])})
         IN  SubSeq(s, 1, k) \o <<n>> \o SubSeq(s, k + 1, n - 1)

\* .drop_duplicates(subset=[DFCI_MRN, TREATMENT, TPLAN_START_DT],
\* keep="first") on the sorted row numbers
GroupOf(r) == <<r.DFCI_MRN, r.TREATMENT, r.TPLAN_START_DT>>
RECURSIVE FirstOfGroup(_, _, _)
FirstOfGroup(order, rows, seen) ==
    IF order = <<>> THEN <<>>
    ELSE LET g == GroupOf(rows[Head(order)]) IN
         IF g \in seen
         THEN FirstOfGroup(Tail(order), rows, seen)
         ELSE <<Head(order)>> \o FirstOfGroup(Tail(order), rows, seen \cup {g})

\* sort_values(...).drop_duplicates(...): per group the row number of the
\* row with the smallest distance
Closest(rows, dist) == FirstOfGroup(sort_values(rows, dist), rows, {})

\* the mutant: the cutoff test is strict
WithinWobbleStrict(d, days_diff_wobble) == notna(d) /\ d[1] < days_diff_wobble

\* closest_start['DAYS_NOTE_TO_TX_START'] <= days_diff_wobble
WithinWobble(d, days_diff_wobble) == notna(d) /\ d[1] <= days_diff_wobble

\* lines 195-196: days_post_tx, 60 when None (the empty cell)
DaysPostTx(days_post_tx) ==
    IF notna(days_post_tx) THEN days_post_tx[1] ELSE 60

\* the mutant: the distance to the treatment start, without the offset
DateDiffNoOffset(r, x) == AbsDaysBetween(r.TPLAN_START_DT, r.EVENT_DATE)

\* lines 246-254: DATE_DIFF_{x}_DAYS_OFFSET
DateDiffXDays(r, x) ==
    AbsDaysBetween(PlusDays(r.TPLAN_START_DT, x), r.EVENT_DATE)

\* one row of the table find_notes_after_treatment returns
TxRow(r, days, diff, note_type) ==
    [DFCI_MRN |-> r.DFCI_MRN,
     TREATMENT |-> r.TREATMENT,
     TPLAN_START_DT |-> r.TPLAN_START_DT,
     DIAGNOSIS_DATE |-> r.DIAGNOSIS_DATE,
     EVENT_DATE |-> r.EVENT_DATE,
     RPT_TEXT |-> r.RPT_TEXT,
     DAYS_NOTE_TO_TX_START |-> days,
     DATE_DIFF_X_DAYS_OFFSET |-> diff,
     NOTE_TYPE |-> note_type]

\* find_notes_after_treatment(df_notes, df_tx, df_dx, days_diff_wobble,
\* days_post_tx). (The TX_START_AGE column is left out.)
find_notes_after_treatment(notes, tx, dx, days_diff_wobble, days_post_tx) ==
    LET x == DaysPostTx(days_post_tx)
        df_tx_notes == MergeNotes(MergeDx(tx, dx), notes)
        n == Len(df_tx_notes)
        days == [i \in 1..n |-> AbsDaysBetween(df_tx_notes[i].TPLAN_START_DT,
                                               df_tx_notes[i].EVENT_DATE)]
        diff == [i \in 1..n |-> DateDiffXDays(df_tx_notes[i], x)]
        first_start == Closest(df_tx_notes, days)
        kept_start == SelectSeq(first_start,
                          LAMBDA i : WithinWobble(days[i], days_diff_wobble))
        \* closest_start is cut before the offset columns exist: the
        \* concatenation fills them with nulls
        closest_start == [k \in 1..Len(kept_start) |->
            TxRow(df_tx_notes[kept_start[k]], days[kept_start[k]], NA,
                  "within +/- " \o ToString(days_diff_wobble) \o " days of tx")]
        first_x == Closest(df_tx_notes, diff)
        closest_to_x_days == [k \in 1..Len(first_x) |->
            TxRow(df_tx_notes[first_x[k]], days[first_x[k]], diff[first_x[k]],
                  "closest to " \o ToString(x) \o " days since tx")]
    IN  Return(closest_start \o closest_to_x_days)

\* df[cols].bfill(axis=1).iloc[:, 0]: the first cell of the row that is
\* not null, null when all are
RECURSIVE Bfill(_)
Bfill(cells) ==
    IF cells = <<>> THEN NA
    ELSE IF notna(Head(cells)) THEN Head(cells) ELSE Bfill(Tail(cells))

\* any(tx.lower() in x for tx in tx_keywords), x the lowered TREATMENT;
\* the labels and the keywords are one character long
KeywordIn(tx_keywords, treatment) ==
    \E k \in 1..Len(tx_keywords) : Lower(tx_keywords[k]) = Lower(treatment)

\* prep_treatment_data(df_tx, df_info, tx_keywords): TREATMENT is the first
\* plan column that is filled, the rows without any are dropped, and the
\* rest filtered by keyword when keywords are given. (df_info holds one row
\* per patient; its columns are left out.)
prep_treatment_data(tx, tx_keywords) ==
    LET df_tx_demo == [i \in 1..Len(tx) |->
            [DFCI_MRN |-> tx[i].DFCI_MRN,
             TREATMENT |-> Bfill(<<tx[i].STD_CHEMO_PLAN,
                                   tx[i].RESEARCH_CHEMO_PLAN,
                                   tx[i].OTHER_TREATMENT_PLAN>>),
             TPLAN_START_DT |-> tx[i].TPLAN_START_DT]]
        dropped == SelectSeq(df_tx_demo, LAMBDA r : notna(r.TREATMENT))
        labelled == [i \in 1..Len(dropped) |->
            [DFCI_MRN |-> dropped[i].DFCI_MRN,
             TREATMENT |-> dropped[i].TREATMENT[1],
             TPLAN_START_DT |-> dropped[i].TPLAN_START_DT]]
    IN  IF tx_keywords = <<>> THEN labelled
        ELSE SelectSeq(labelled, LAMBDA r : KeywordIn(tx_keywords, r.TREATMENT))

\* df_notes['RPT_TEXT'].str.contains("|".join(filters), na=False): the
\* join of no filter is the empty pattern, found in every text; a note's
\* text is one symbol
Contains(filters, text) ==
    /\ notna(text)
    /\ filters = <<>> \/ \E k \in 1..Len(filters) : filters[k] = text[1]

\* prep_notes(df_notes, tx_mrns, progress_note_text_filters)
prep_notes(notes, tx_mrns, progress_note_text_filters) ==
    SelectSeq(SelectSeq(notes, LAMBDA n : n.DFCI_MRN \in tx_mrns),
              LAMBDA n : Contains(progress_note_text_filters, n.RPT_TEXT))

\* pd.concat of the two tables: the columns one side lacks are null
ConcatRow(r, days_after_dx, days_note_to_tx_start, date_diff_x_days) ==
    [DFCI_MRN |-> r.DFCI_MRN,
     TREATMENT |-> r.TREATMENT,
     TPLAN_START_DT |-> r.TPLAN_START_DT,
     DIAGNOSIS_DATE |-> r.DIAGNOSIS_DATE,
     EVENT_DATE |-> r.EVENT_DATE,
     RPT_TEXT |-> r.RPT_TEXT,
     DAYS_AFTER_DX |-> days_after_dx,
     DAYS_NOTE_TO_TX_START |-> days_note_to_tx_start,
     DATE_DIFF_X_DAYS_OFFSET |-> date_diff_x_days,
     NOTE_TYPE |-> r.NOTE_TYPE]

\* filter_progress_notes, lines 317-349, on tables whose dates and MRNs
\* are already tz-naive datetimes and integers
filter_progress_notes(df_progress_notes, df_treatments, df_diagnosis, treatment_keywords, progress_note_text_filters, earliest_data_date, days_diff_wobble, days_post_tx) ==
    LET df_tx_filt == prep_treatment_data(df_treatments, treatment_keywords)
        tx_mrns == {df_tx_filt[i].DFCI_MRN : i \in 1..Len(df_tx_filt)}
        df_notes_filt == prep_notes(df_progress_notes, tx_mrns,
                                    progress_note_text_filters)
        notes_after_dx == find_notes_after_diagnosis(
            df_notes_filt, df_tx_filt, df_diagnosis, earliest_data_date)
        notes_after_tx == find_notes_after_treatment(
            df_notes_filt, df_tx_filt, df_diagnosis,
            days_diff_wobble, days_post_tx)
        a == notes_after_dx.value
        b == notes_after_tx.value
        df_final ==
            [i \in 1..Len(a) |-> ConcatRow(a[i], a[i].DAYS_AFTER_DX, NA, NA)]
            \o [i \in 1..Len(b) |->
                   ConcatRow(b[i], NA, b[i].DAYS_NOTE_TO_TX_START,
                             b[i].DATE_DIFF_X_DAYS_OFFSET)]
    IN  IF notes_after_dx.raised # "" THEN notes_after_dx
        ELSE Return(SelectSeq(df_final, LAMBDA r : notna(r.RPT_TEXT)))

---------------------------------------------------------------------------
(* The inputs of the note filtering calls *)

MRNs == {1, 2}
DateVals == 0..MaxDate

\* the rows of df_notes: any note of patient 1, dated or not, and one
\* note of patient 2
NoteRows ==
    ({1} \X ({Cell(d) : d \in DateVals} \cup {NaT})) \cup {<<2, Cell(1)>>}
NoteTables ==
    UNION {[1..n -> NoteRows] : n \in 0..MaxNotes}
\* RPT_TEXT stands for the note's own columns: here its row number
AsNotes(t) ==
    [i \in 1..Len(t) |->
        [DFCI_MRN |-> t[i][1], EVENT_DATE |-> t[i][2], RPT_TEXT |-> Cell(i)]]

\* the rows of df_tx: a treatment plan of patient 1, or one of patient 2
StartDates == {0, 1}
TxRows == ({1} \X Treatments \X StartDates) \cup {<<2, "A", 1>>}
TxTables == UNION {[1..n -> TxRows] : n \in {0, 1, 2}}
AsTx(t) ==
    [i \in 1..Len(t) |->
        [DFCI_MRN |-> t[i][1], TREATMENT |-> t[i][2],
         TPLAN_START_DT |-> Cell(t[i][3])]]

\* the rows of df_dx: the diagnoses of patient 1
DxTables == UNION {[1..n -> DateVals] : n \in {0, 1, 2}}
AsDx(t) ==
    [i \in 1..Len(t) |-> [DFCI_MRN |-> 1, DIAGNOSIS_DATE |-> Cell(t[i])]]

\* df_treatments as filter_progress_notes takes it, before TREATMENT
\* exists: treatment A is a standard chemo plan, B another treatment plan
AsTreatments(tx) ==
    [i \in 1..Len(tx) |->
        [DFCI_MRN |-> tx[i].DFCI_MRN,
         STD_CHEMO_PLAN |-> IF tx[i].TREATMENT = "A" THEN Cell("A") ELSE NA,
         RESEARCH_CHEMO_PLAN |-> NA,
         OTHER_TREATMENT_PLAN |-> IF tx[i].TREATMENT = "B" THEN Cell("B") ELSE NA,
         TPLAN_START_DT |-> tx[i].TPLAN_START_DT]]

\* the arguments filter_progress_notes is called with: no filter at all,
\* a treatment keyword, a note text filter
FilterCalls ==
    { [treatment_keywords |-> <<>>, progress_note_text_filters |-> <<>>,
       earliest_data_date |-> Cell(0), days_diff_wobble |-> 7,
       days_post_tx |-> NA],
      [treatment_keywords |-> <<"b">>, progress_note_text_filters |-> <<>>,
       earliest_data_date |-> Cell(0), days_diff_wobble |-> 1,
       days_post_tx |-> Cell(1)],
      [treatment_keywords |-> <<>>, progress_note_text_filters |-> <<1>>,
       earliest_data_date |-> Cell(1), days_diff_wobble |-> 7,
       days_post_tx |-> NA] }

---------------------------------------------------------------------------
(* The note filtering calls as a state machine *)

ExtractIdle ==
    /\ entry = "none" /\ input_text = <<>> /\ proc_desc = None
    /\ mapping_type = "pathology" /\ match_type = "hard" /\ fallback = None
    /\ mappings = <<>> /\ compiled = <<>> /\ matches = <<>> /\ idx = 1
    /\ current_pos = 0 /\ extracted = <<>> /\ ranges = <<>>
    /\ pc = "idle" /\ result = Return(<<>>) /\ history = <<>>

\* generated tables
InitTables ==
    /\ \E t \in NoteTables : df_notes = AsNotes(t)
    /\ \E t \in TxTables : df_tx = AsTx(t)
    /\ \E t \in DxTables : df_dx = AsDx(t)

\* the documented examples, dates as days of the year 2020: a diagnosis on
\* 2020-01-10 and a treatment start on 2020-03-01, with the notes of
\* 2020-01-05, 2020-01-15 and 2020-02-01, or of 2020-02-20 and 2020-03-03,
\* or of 2020-02-20 alone, in any row order
ExampleNoteDays == {{4, 14, 31}, {50, 62}, {50}}
ExampleNoteTables ==
    UNION {{t \in [1..Cardinality(S) -> {1} \X {Cell(d) : d \in S}] :
               \A i, j \in 1..Cardinality(S) : t[i] = t[j] => i = j} :
           S \in ExampleNoteDays}
InitExamples ==
    /\ \E t \in ExampleNoteTables : df_notes = AsNotes(t)
    /\ df_tx = <<[DFCI_MRN |-> 1, TREATMENT |-> "A", TPLAN_START_DT |-> Cell(60)]>>
    /\ df_dx = <<[DFCI_MRN |-> 1, DIAGNOSIS_DATE |-> Cell(9)]>>

InitFilter ==
    /\ InitTables \/ InitExamples
    /\ call = [name |-> "none"]
    /\ out = Return(<<>>)
    /\ ExtractIdle

FindNotesAfterDiagnosis ==
    /\ call.name = "none"
    /\ \E earliest_data_date \in {0, 1} :
          /\ call' = [name |-> "find_notes_after_diagnosis",
                      earliest_data_date |-> Cell(earliest_data_date)]
          /\ out' = find_notes_after_diagnosis(df_notes, df_tx, df_dx,
                                               Cell(earliest_data_date))
    /\ UNCHANGED <<df_notes, df_tx, df_dx, extract_vars>>

FindNotesAfterTreatment ==
    /\ call.name = "none"
    /\ \E days_diff_wobble \in {1, 7} : \E days_post_tx \in {NA, Cell(1)} :
          /\ call' = [name |-> "find_notes_after_treatment",
                      days_diff_wobble |-> days_diff_wobble,
                      days_post_tx |-> days_post_tx]
          /\ out' = find_notes_after_treatment(df_notes, df_tx, df_dx,
                                               days_diff_wobble, days_post_tx)
    /\ UNCHANGED <<df_notes, df_tx, df_dx, extract_vars>>

FilterProgressNotes ==
    /\ call.name = "none"
    /\ \E c \in FilterCalls :
          /\ call' = [name |-> "filter_progress_notes", args |-> c]
          /\ out' = filter_progress_notes(
                        df_notes, AsTreatments(df_tx), df_dx,
                        c.treatment_keywords, c.progress_note_text_filters,
                        c.earliest_data_date, c.days_diff_wobble,
                        c.days_post_tx)
    /\ UNCHANGED <<df_notes, df_tx, df_dx, extract_vars>>

NextFilter ==
    \/ FindNotesAfterDiagnosis
    \/ FindNotesAfterTreatment
    \/ FilterProgressNotes

SpecFilter == InitFilter /\ [][NextFilter]_vars

---------------------------------------------------------------------------
(* ensure_naive_datetime *)

\* A date as it arrives: a string or Timestamp that parses to the wall
\* clock time wall, in hours, at the UTC offset utcoffset, in hours, or
\* without offset (tz-naive, the empty cell); or a string that does not
\* parse. A tz-naive datetime is the cell of its wall clock hours.
Timestamp(wall, utcoffset) ==
    [parses |-> TRUE, wall |-> wall, utcoffset |-> utcoffset]
Unparseable == [parses |-> FALSE, wall |-> 0, utcoffset |-> NA]

\* Timestamp.tz_localize(None) and Series.dt.tz_localize(None): the
\* offset is dropped, the wall clock time kept
tz_localize_none(ts) == Cell(ts.wall)

\* Series.dt.tz_convert(None): converted to UTC, then the offset dropped
tz_convert_none(ts) == Cell(ts.wall - ts.utcoffset[1])

\* lines 27-29, the scalar branch: pd.to_datetime(obj, errors="coerce") is
\* NaT for what does not parse, and NaT.tzinfo is None
EnsureNaiveScalar(obj) ==
    IF ~obj.parses THEN NaT
    ELSE IF notna(obj.utcoffset) THEN tz_localize_none(obj)
         ELSE Cell(obj.wall)

\* lines 32-35, the Series branch, on a column whose elements share one
\* offset (series.dt.tz) or have none
EnsureNaiveSeries(series) ==
    [i \in 1..Len(series) |->
        IF ~series[i].parses THEN NaT
        ELSE IF notna(series[i].utcoffset) THEN tz_convert_none(series[i])
             ELSE tz_localize_none(series[i])]

\* ensure_naive_datetime(obj): a str or Timestamp, or a Series
ensure_naive_datetime(obj) ==
    IF obj.isinstance = "scalar"
    THEN EnsureNaiveScalar(obj.value)
    ELSE EnsureNaiveSeries(obj.value)

\* the dates handed to ensure_naive_datetime: midnight, 05:00 and 23:00
\* of day 0, tz-naive, in UTC, at UTC-05:00 or at UTC+09:00
WallHours == {0, 5, 23}
UtcOffsets == {NA, Cell(0), Cell(0 - 5), Cell(9)}
DateColumns ==
    UNION {[1..n -> {Timestamp(w, tz) : w \in WallHours} \cup {Unparseable}] :
              n \in 0..MaxNotes, tz \in UtcOffsets}

\* the EVENT_DATE column of a notes table as it is loaded
InitNaive ==
    /\ \E col \in DateColumns :
          df_notes = [i \in 1..Len(col) |->
                         [DFCI_MRN |-> 1, EVENT_DATE |-> col[i],
                          RPT_TEXT |-> Cell(i)]]
    /\ df_tx = <<>> /\ df_dx = <<>>
    /\ call = [name |-> "none"]
    /\ out = Return(<<>>)
    /\ ExtractIdle

EVENT_DATE == [i \in 1..Len(df_notes) |-> df_notes[i].EVENT_DATE]

\* ensure_naive_datetime(df_notes["EVENT_DATE"]), as on line 128
EnsureNaiveColumn ==
    /\ call.name = "none"
    /\ call' = [name |-> "ensure_naive_datetime", isinstance |-> "Series",
                row |-> 0]
    /\ out' = Return(ensure_naive_datetime(
                        [isinstance |-> "Series", value |-> EVENT_DATE]))
    /\ UNCHANGED <<df_notes, df_tx, df_dx, extract_vars>>

\* ensure_naive_datetime(date) on one date of the table passed on its own,
\* the way earliest_data_date is on line 163
EnsureNaiveDate ==
    /\ call.name = "none"
    /\ \E i \in 1..Len(df_notes) :
          /\ call' = [name |-> "ensure_naive_datetime",
                      isinstance |-> "scalar", row |-> i]
          /\ out' = Return(<<ensure_naive_datetime(
                               [isinstance |-> "scalar",
                                value |-> EVENT_DATE[i]])>>)
    /\ UNCHANGED <<df_notes, df_tx, df_dx, extract_vars>>

NextNaive ==
    \/ EnsureNaiveColumn
    \/ EnsureNaiveDate

SpecNaive == InitNaive /\ [][NextNaive]_vars

---------------------------------------------------------------------------
(* Claims about the extraction *)

\* the literal pat lies wholly inside text[a:b]
OccursWithin(pat, text, a, b) ==
    \E p \in a..(b - Len(pat)) : \A k \in 1..Len(pat) : text[p + k] = pat[k]

\* C1: the ranges [start_pos, end_pos) of the segments extract_segments
\* appends never overlap and come in document order: each start_pos is at
\* or after the previous end_pos, and no range ends before it starts.
C1_NoOverlap ==
    /\ \A i \in 1..Len(ranges) : ranges[i].start_pos <= ranges[i].end_pos
    /\ \A i \in 2..Len(ranges) : ranges[i - 1].end_pos <= ranges[i].start_pos

\* C1 witness: a finished sweep that appended two segments, the first not
\* empty, and skipped a match lying inside a segment.
C1_Witness ==
    /\ pc = "done"
    /\ Len(ranges) >= 2
    /\ ranges[1].start_pos < ranges[1].end_pos
    /\ Len(matches) > Len(ranges)

\* C2: with an absent input text extract_text returns the one segment
\* FALLBACK TEXT, holding the fallback text when one is given and
\* NO INPUT TEXT when none is, and raises nothing.
C2_AbsentTextReturnsFallback ==
    (entry = "extract_text" /\ isna(input_text) /\ pc \in {"done", "raised"})
        => result = Return(<<[SECTION |-> FALLBACK_TEXT,
                              SECTION_TEXT |-> IF fallback # None
                                               THEN fallback
                                               ELSE NO_INPUT_TEXT]>>)

\* C3: a segment appended for a rule without end keywords runs to the end
\* of the document.
C3_NoEndKeywordsRunsToEnd ==
    \A i \in 1..Len(ranges) :
        (\E r \in 1..Len(compiled) :
            /\ compiled[r].end_keywords = <<>>
            /\ compiled[r].start_keyword = ranges[i].match.section
            /\ compiled[r].end_regex = ranges[i].match.end_regex)
        => ranges[i].end_pos = Len(input_text)

\* s is text without its leading and trailing whitespace
IsStripped(s, text) ==
    /\ s = <<>> \/ (s[1] \notin Whitespace /\ s[Len(s)] \notin Whitespace)
    /\ \E a \in 0..Len(text) : \E b \in a..Len(text) :
          /\ s = Slice(text, a, b)
          /\ \A k \in 1..Len(text) : (k <= a \/ k > b) => text[k] \in Whitespace

\* C4: a finished scan returns at least one segment: when the sweep
\* appended none, exactly the segment ENTIRE NOTE holding the stripped
\* input; when it appended some, those segments and no ENTIRE NOTE.
C4_AtLeastOneSegment ==
    (pc = "done" /\ ~isna(input_text)) =>
        /\ Len(result.value) >= 1
        /\ ranges = <<>> =>
              /\ Len(result.value) = 1
              /\ result.value[1].SECTION = ENTIRE_NOTE
              /\ IsStripped(result.value[1].SECTION_TEXT, input_text)
        /\ ranges # <<>> =>
              /\ Len(result.value) = Len(ranges)
              /\ \A i \in 1..Len(ranges) :
                    result.value[i].SECTION = ranges[i].match.section

\* C4 witness: a finished scan whose matches were all excluded, returning
\* the whole note stripped of surrounding whitespace.
C4_Witness ==
    /\ pc = "done"
    /\ matches # <<>>
    /\ ranges = <<>>
    /\ result.value[1].SECTION = ENTIRE_NOTE
    /\ result.value[1].SECTION_TEXT # input_text

\* C5, one iteration: a match of an exclude rule that is not skipped as
\* overlapping appends no segment and leaves current_pos alone when its
\* exclude_after keyword lies wholly in [start_pos, end_pos), and appends
\* its segment when it does not.
C5_ExcludeStep ==
    (/\ InLoop
     /\ ~(matches[idx].start_pos < current_pos)
     /\ matches[idx].condition = "exclude"
     /\ matches[idx].exclude_regex # None)
    => IF OccursWithin(matches[idx].exclude_regex, input_text,
                       matches[idx].start_pos,
                       EndPos(matches[idx], input_text))
       THEN extracted' = extracted /\ current_pos' = current_pos
       ELSE /\ Len(extracted') = Len(extracted) + 1
            /\ extracted'[Len(extracted')].SECTION = matches[idx].section
            /\ current_pos' = EndPos(matches[idx], input_text)

\* C5, the example: the rule {Diagnosis, [Gross Description], exclude,
\* CLINICAL DATA} on "Diagnosis: foo CLINICAL DATA bar Gross Description"
\* appends no segment.
C5_ExcludeExample ==
    (/\ entry = "scan"
     /\ input_text = DiagnosisNote
     /\ mappings = <<DiagnosisExcludeRule>>
     /\ pc = "done")
    => /\ ranges = <<>>
       /\ \A i \in 1..Len(result.value) :
             result.value[i].SECTION # DiagnosisExcludeRule.start

\* C5: in the sweep an exclude rule's match is suppressed exactly when
\* exclude_after occurs wholly within [startOffset, endPos), leaving
\* currentPos unchanged; otherwise its segment is emitted. The example
\* text's segment is suppressed.
C5_ExcludeSuppression == [][C5_ExcludeStep]_vars /\ []C5_ExcludeExample

\* C5 witness: the example finished, its one match found and suppressed.
C5_Witness ==
    /\ entry = "scan"
    /\ input_text = DiagnosisNote
    /\ mappings = <<DiagnosisExcludeRule>>
    /\ pc = "done"
    /\ Len(matches) = 1
    /\ ranges = <<>>

\* the offsets at which some rule's start keyword occurs in the text
StartAnchorOffsets ==
    {p \in 0..Len(input_text) :
        \E r \in 1..Len(compiled) :
            /\ p + Len(compiled[r].start_keyword) <= Len(input_text)
            /\ OccursWithin(compiled[r].start_keyword, input_text,
                            p, p + Len(compiled[r].start_keyword))}

\* C6: for imaging find_matches keeps at most one match, the start
\* keyword occurrence with the smallest offset in the text over all rules.
C6_ImagingFirstInDocument ==
    (pc \in {"extract_segments", "done"} /\ mapping_type = "imaging"
        /\ ~isna(input_text)) =>
        /\ Len(matches) <= 1
        /\ StartAnchorOffsets # {} =>
              /\ Len(matches) = 1
              /\ \A p \in StartAnchorOffsets :
                    matches[1].start_pos - Len(matches[1].section) <= p

\* key matches pdesc the way the soft loop tests it
SoftKeyMatches(key, pdesc) ==
    \/ key = WILDCARD
    \/ \E p \in 0..(Len(pdesc) - Len(key)) :
          \A k \in 1..Len(key) : Lower(pdesc[p + k]) = Lower(key[k])

\* C10: in soft mode get_mappings returns the rules of the first key, in
\* declaration order, that is "*" or matches proc_desc case-insensitively;
\* with no such key it raises the no-soft-match error. Every proc_desc
\* resolves to the "*" rules of the imaging table.
C10_SoftLookup ==
    (/\ entry = "extract_text"
     /\ pc # "extract_text"
     /\ ~(isna(input_text) /\ fallback # None)
     /\ match_type = "soft"
     /\ mapping_type \in MappingTypes) =>
        LET dict == mapping_dict(mapping_type)
            hit(i) == SoftKeyMatches(dict[i].key, proc_desc)
        IN
        IF \E i \in 1..Len(dict) : hit(i)
        THEN /\ \E i \in 1..Len(dict) :
                   /\ hit(i)
                   /\ \A j \in 1..(i - 1) : ~hit(j)
                   /\ mappings = dict[i].rules
             /\ mapping_type = "imaging" =>
                   mappings = image_mappings_by_proc_desc[1].rules
        ELSE /\ pc = "raised"
             /\ result = Raise("ValueError: No soft match found for PROC_DESC")

\* C10 witness: a proc_desc naming two pathology keys resolved, in soft
\* mode, to the rules of the key declared first.
C10_Witness ==
    /\ entry = "extract_text"
    /\ match_type = "soft"
    /\ mapping_type = "pathology"
    /\ pc = "compile"
    /\ Cardinality(SoftHits(pathology_mappings_by_proc_desc, proc_desc)) = 2
    /\ mappings = pathology_mappings_by_proc_desc[1].rules

---------------------------------------------------------------------------
(* Claims about the note filtering *)

\* the dated notes of a patient
DatedNotesOf(mrn) ==
    {i \in 1..Len(df_notes) :
        df_notes[i].DFCI_MRN = mrn /\ notna(df_notes[i].EVENT_DATE)}

\* |a - b|
AbsDiff(a, b) == IF a >= b THEN a - b ELSE b - a

\* the (patient, treatment, start date) groups of the treatment table
TxGroups == {GroupOf(df_tx[i]) : i \in 1..Len(df_tx)}

\* the rows of the returned table with a given NOTE_TYPE, in one group
RowsOf(note_type, g) ==
    {i \in 1..Len(out.value) :
        out.value[i].NOTE_TYPE = note_type /\ GroupOf(out.value[i]) = g}

\* C7: every row find_notes_after_diagnosis returns is tagged "first after
\* dx" and holds, for one of its patient's diagnosis dates, the note with
\* the earliest event date among the patient's notes on or after that
\* date, whatever the order of the notes table.
C7_EarliestNoteAfterDiagnosis ==
    (call.name = "find_notes_after_diagnosis" /\ out.raised = "") =>
        \A i \in 1..Len(out.value) :
            LET row == out.value[i] IN
            /\ row.NOTE_TYPE = "first after dx"
            /\ \E d \in 1..Len(df_dx) :
                  /\ df_dx[d].DFCI_MRN = row.DFCI_MRN
                  /\ notna(row.EVENT_DATE)
                  /\ row.EVENT_DATE[1] >= df_dx[d].DIAGNOSIS_DATE[1]
                  /\ \A n \in DatedNotesOf(row.DFCI_MRN) :
                        df_notes[n].EVENT_DATE[1] >= df_dx[d].DIAGNOSIS_DATE[1]
                            => row.EVENT_DATE[1] <= df_notes[n].EVENT_DATE[1]

\* C8: per (patient, treatment, start date) group the within-window
\* selection returns at most one row, a note at the smallest distance in
\* days from the start date, and returns it exactly when that distance is
\* at most days_diff_wobble; the row is tagged "within +/- N days of tx".
C8_WithinWindow ==
    call.name = "find_notes_after_treatment" =>
        LET w == call.days_diff_wobble
            tag == "within +/- " \o ToString(w) \o " days of tx"
        IN
        /\ \A i \in 1..Len(out.value) :
              out.value[i].NOTE_TYPE = tag => GroupOf(out.value[i]) \in TxGroups
        /\ \A g \in TxGroups :
              LET start == g[3][1]
                  dists == {AbsDiff(df_notes[n].EVENT_DATE[1], start) :
                               n \in DatedNotesOf(g[1])}
                  sel == RowsOf(tag, g)
              IN
              /\ Cardinality(sel) <= 1
              /\ sel # {} <=> \E d \in dists :
                                 d <= w /\ \A e \in dists : d <= e
              /\ \A i \in sel :
                    /\ \E n \in DatedNotesOf(g[1]) :
                          /\ out.value[i].EVENT_DATE = df_notes[n].EVENT_DATE
                          /\ out.value[i].RPT_TEXT = df_notes[n].RPT_TEXT
                    /\ \A e \in dists :
                          AbsDiff(out.value[i].EVENT_DATE[1], start) <= e
                    /\ out.value[i].DAYS_NOTE_TO_TX_START =
                          Cell(AbsDiff(out.value[i].EVENT_DATE[1], start))

\* C8 witness: the example. Treatment start 2020-03-01, wobble 7, notes of
\* 2020-02-20 and 2020-03-03: the one within-window row holds the note of
\* 2020-03-03, two days from the start.
C8_Witness ==
    /\ call.name = "find_notes_after_treatment"
    /\ call.days_diff_wobble = 7
    /\ Len(df_tx) = 1
    /\ df_tx[1].TPLAN_START_DT = Cell(60)
    /\ Len(df_notes) = 2
    /\ df_notes[1].EVENT_DATE = Cell(50)
    /\ df_notes[2].EVENT_DATE = Cell(62)
    /\ \E i \in 1..Len(out.value) :
          /\ out.value[i].NOTE_TYPE = "within +/- 7 days of tx"
          /\ out.value[i].EVENT_DATE = Cell(62)
          /\ out.value[i].DAYS_NOTE_TO_TX_START = Cell(2)

---------------------------------------------------------------------------
(* Claims about the lookup errors and the purity of the extraction *)

\* C11: in hard mode get_mappings returns the rules registered under
\* proc_desc exactly when proc_desc equals a key of the chosen table,
\* character for character; otherwise it raises the unknown PROC_DESC
\* error, and extract_text called with a present text lets it through:
\* nothing is scanned and no segment, not even ENTIRE NOTE, is returned.
C11_HardLookup ==
    (/\ entry = "extract_text"
     /\ pc # "extract_text"
     /\ ~(isna(input_text) /\ fallback # None)
     /\ match_type = "hard"
     /\ mapping_type \in MappingTypes) =>
        LET dict == mapping_dict(mapping_type) IN
        IF \E i \in 1..Len(dict) : dict[i].key = proc_desc
        THEN /\ \E i \in 1..Len(dict) :
                   dict[i].key = proc_desc /\ mappings = dict[i].rules
             /\ ~isna(input_text) => pc # "raised"
        ELSE /\ pc = "raised"
             /\ result = Raise("ValueError: Unknown PROC_DESC")
             /\ result.value = <<>>
             /\ mappings = <<>> /\ compiled = <<>> /\ matches = <<>>
             /\ extracted = <<>>

\* C11 witness: a present text and a proc_desc that only contains a
\* pathology key, in another case: the hard lookup raised.
C11_Witness ==
    /\ entry = "extract_text"
    /\ match_type = "hard"
    /\ mapping_type = "pathology"
    /\ input_text = DiagnosisNote
    /\ SoftHits(pathology_mappings_by_proc_desc, proc_desc) # {}
    /\ pc = "raised"
    /\ result = Raise("ValueError: Unknown PROC_DESC")

\* the (patient, treatment, start date, note type) of a returned row
RowKey(r) == <<r.DFCI_MRN, r.TREATMENT, r.TPLAN_START_DT, r.NOTE_TYPE>>

\* C12: the table filter_progress_notes returns holds at most one row per
\* (DFCI_MRN, TREATMENT, TPLAN_START_DT, NOTE_TYPE), whatever the tables.
C12_OneRowPerKey ==
    (call.name = "filter_progress_notes" /\ out.raised = "") =>
        \A i, j \in 1..Len(out.value) :
            RowKey(out.value[i]) = RowKey(out.value[j]) => i = j

\* the notes of patient mrn dated on or after the diagnosis date dx_date
QualifyingNotes(mrn, dx_date) ==
    {n \in DatedNotesOf(mrn) : Ge(df_notes[n].EVENT_DATE, dx_date)}

\* C13: find_notes_after_diagnosis raises nothing: it returns a table,
\* with no row for a patient none of whose notes is dated on or after one
\* of the patient's diagnosis dates, and an empty table when no patient
\* has such a note.
C13_NoQualifyingNoteNoRaise ==
    call.name = "find_notes_after_diagnosis" =>
        /\ out.raised = ""
        /\ \A i \in 1..Len(out.value) :
              \E d \in 1..Len(df_dx) :
                  /\ df_dx[d].DFCI_MRN = out.value[i].DFCI_MRN
                  /\ QualifyingNotes(out.value[i].DFCI_MRN,
                                     df_dx[d].DIAGNOSIS_DATE) # {}

\* C16: every row find_notes_after_diagnosis returns holds a diagnosis
\* date its note is on or after: EVENT_DATE >= DIAGNOSIS_DATE and
\* DAYS_AFTER_DX >= 0.
C16_RowCarriesItsDiagnosisDate ==
    (call.name = "find_notes_after_diagnosis" /\ out.raised = "") =>
        \A i \in 1..Len(out.value) :
            /\ Ge(out.value[i].EVENT_DATE, out.value[i].DIAGNOSIS_DATE)
            /\ notna(out.value[i].DAYS_AFTER_DX)
            /\ out.value[i].DAYS_AFTER_DX[1] >= 0

\* C14, the results: every two finished extract_text calls with the same
\* (input_text, proc_desc, mapping_type, match_type, fallback) returned
\* the same segments or raised the same error, whatever calls came before
\* or between them.
C14_SameArgsSameResult ==
    /\ \A i, j \in 1..Len(history) :
          history[i].args = history[j].args
              => history[i].result = history[j].result
    /\ pc \in {"done", "raised"} =>
          \A i \in 1..Len(history) :
              history[i].args = args => history[i].result = result

\* C14, one step of a call in progress: the arguments, the input text
\* among them, are what they were.
C14_CallStep == pc \notin {"done", "raised"} => args' = args

\* C14: extract_text is deterministic and keeps no state between calls:
\* calls with identical arguments return identical results in any order
\* and after any other calls, and no step of a call changes its input.
C14_Deterministic == []C14_SameArgsSameResult /\ [][C14_CallStep]_vars

\* C14 witness: a call that returned real segments, another call with
\* other arguments and another result, then the first call again,
\* finished with the first result.
C14_Witness ==
    /\ pc = "done"
    /\ Len(history) = 2
    /\ history[1].args = args
    /\ history[1].result = result
    /\ history[2].args # args
    /\ history[2].result # result
    /\ history[2].result.raised = ""
    /\ ranges # <<>>
    /\ result.value[1].SECTION # ENTIRE_NOTE

\* the end of the span of a "Diagnosis" occurrence: the next
\* "Gross Description" at or after start_pos, or the end of the text
GrossDescriptionFrom(start_pos) ==
    LET found == Search(DiagnosisExcludeRule.end, input_text, start_pos,
                        Len(input_text))
    IN  IF found # NoMatch THEN found ELSE Len(input_text)

\* C15: with the rules registered under SURGICAL PATHOLOGY, looked up
\* hard, no segment is appended for a "Diagnosis" occurrence whose span up
\* to the next "Gross Description" holds "CLINICAL DATA"; the text
\* "Diagnosis: foo CLINICAL DATA bar Gross Description" yields no segment
\* of section "Diagnosis".
C15_DiagnosisReferenceSuppressed ==
    (/\ entry = "extract_text"
     /\ ~isna(input_text)
     /\ mapping_type = "pathology"
     /\ match_type = "hard"
     /\ proc_desc = pathology_mappings_by_proc_desc[1].key
     /\ pc \in {"extract_segments", "done"}) =>
        /\ \A i \in 1..Len(ranges) :
              ranges[i].match.section = DiagnosisExcludeRule.start =>
                  ~OccursWithin(DiagnosisExcludeRule.exclude_after, input_text,
                                ranges[i].start_pos,
                                GrossDescriptionFrom(ranges[i].start_pos))
        /\ (input_text = DiagnosisNote /\ pc = "done") =>
              \A i \in 1..Len(result.value) :
                  result.value[i].SECTION # DiagnosisExcludeRule.start

\* the offsets at or after start_pos at which one of the end keywords
\* occurs in the text
EndKeywordOffsets(end_keywords, start_pos) ==
    {p \in start_pos..Len(input_text) :
        \E k \in 1..Len(end_keywords) :
            /\ p + Len(end_keywords[k]) <= Len(input_text)
            /\ OccursWithin(end_keywords[k], input_text,
                            p, p + Len(end_keywords[k]))}

\* C18: the segment appended for a match of a rule with end keywords ends
\* at the leftmost occurrence of any of them at or after start_pos, or at
\* the end of the text when there is none; so none of them lies wholly in
\* text[start_pos:end_pos], and no other segment starts inside it: the
\* matches that do are skipped.
C18_EndAtLeftmostEndKeyword ==
    (pc \in {"extract_segments", "done"} /\ ~isna(input_text)) =>
        \A i \in 1..Len(ranges) :
            LET end_keywords == ranges[i].match.end_regex
                offsets == EndKeywordOffsets(end_keywords, ranges[i].start_pos)
            IN
            end_keywords # end_regex_of(<<>>) =>
                /\ IF offsets = {}
                   THEN ranges[i].end_pos = Len(input_text)
                   ELSE /\ ranges[i].end_pos \in offsets
                        /\ \A p \in offsets : ranges[i].end_pos <= p
                /\ \A k \in 1..Len(end_keywords) :
                      ~OccursWithin(end_keywords[k], input_text,
                                    ranges[i].start_pos, ranges[i].end_pos)
                /\ \A j \in 1..Len(ranges) :
                      (j # i /\ ranges[i].start_pos <= ranges[j].start_pos)
                          => ranges[i].end_pos <= ranges[j].start_pos

\* C18 witness: a finished sweep with a segment that is not empty, of a
\* rule with two end keywords, ended before the end of the text by the
\* second of them, and with two matches starting inside it, of which only
\* the segment's own was appended.
C18_Witness ==
    /\ pc = "done"
    /\ \E i \in 1..Len(ranges) :
          /\ Len(ranges[i].match.end_regex) = 2
          /\ ranges[i].start_pos < ranges[i].end_pos
          /\ ranges[i].end_pos < Len(input_text)
          /\ input_text[ranges[i].end_pos + 1] = ranges[i].match.end_regex[2][1]
          /\ Cardinality({k \in 1..Len(matches) :
                /\ ranges[i].start_pos <= matches[k].start_pos
                /\ matches[k].start_pos < ranges[i].end_pos}) >= 2
          /\ \A j \in 1..Len(ranges) :
                j # i => ~(/\ ranges[i].start_pos <= ranges[j].start_pos
                           /\ ranges[j].start_pos < ranges[i].end_pos)

\* C17: ensure_naive_datetime gives one tz-naive value per date, the same
\* for a date passed on its own and for the same date as an element of a
\* column, and NaT, without raising, for a date that does not parse.
C17_OneNaiveRepresentation ==
    call.name = "ensure_naive_datetime" =>
        /\ out.raised = ""
        /\ call.isinstance = "Series" =>
              /\ Len(out.value) = Len(df_notes)
              /\ \A i \in 1..Len(df_notes) :
                    /\ out.value[i] = EnsureNaiveScalar(EVENT_DATE[i])
                    /\ ~EVENT_DATE[i].parses => out.value[i] = NaT
        /\ call.isinstance = "scalar" =>
              /\ out.value[1] = EnsureNaiveSeries(EVENT_DATE)[call.row]
              /\ ~EVENT_DATE[call.row].parses => out.value[1] = NaT
====
